---- MODULE Spec2Model ----
(***************************************************************************)
(* State-machine model of bot.py: the per-user rate limiter (check_spam),  *)
(* chat registration (register_chat), the command handlers, the free-text  *)
(* router (handle_message) and the operator commands (/stats, /broadcast). *)
(*                                                                         *)
(* A handler is a coroutine; the code between two awaits runs atomically   *)
(* on the event loop, so every action below is one such stretch of code    *)
(* together with the awaited call that ends it.                            *)
(***************************************************************************)
EXTENDS Integers, Sequences, FiniteSets, TLC

\* ------------------------------------------------------------------ bounds
MaxTime == 4        \* the clock runs up to MaxTime
MaxEvents == 2      \* updates dispatched in one behaviour
MaxTasks == 2       \* handler invocations in flight (SpecConc only)
Resolution == 2     \* clock readings per second (SpecLimiter only)
MaxCalls == 4       \* calls of check_spam in one behaviour (SpecLimiter only)

\* --------------------------------------------------------- configuration
COOLDOWN_SECONDS == 2       \* int(os.getenv("COOLDOWN_SECONDS", "5")), here set to 2
concurrent_updates == 1     \* updates handled at a time: the builder's default

\* ids (the code compares them for equality only)
OWNER_ID == "owner"         \* OWNER_ID
BOT_ID == "bot"             \* context.bot.id
USER_A == "user-a"
USER_B == "user-b"
USER_C == "user-c"
GROUP_ID == "group-1"
SGROUP_ID == "supergroup-1"

NoEntry == -1       \* rate_limits has no key for the user
NoText == <<"None">>    \* Python None where a text is expected
NoReply == [from |-> "nobody", text |-> NoText]   \* message.reply_to_message is None
Idle == [pc |-> "idle"]

\* ------------------------------------------------------------------- text
\* A text is a sequence of one-character strings.
lower(c) == CASE c = "B" -> "b" [] c = "O" -> "o" [] c = "H" -> "h" [] OTHER -> c

LowerSeq(s) == [i \in 1..Len(s) |-> lower(s[i])]

RECURSIVE lstrip(_)
lstrip(s) == IF s # <<>> /\ Head(s) = " " THEN lstrip(Tail(s)) ELSE s

RECURSIVE rstrip(_)
rstrip(s) == IF s # <<>> /\ s[Len(s)] = " " THEN rstrip(SubSeq(s, 1, Len(s) - 1)) ELSE s

strip(s) == rstrip(lstrip(s))

\* Python's `sub in s` on strings
Contains(sub, s) ==
    \E i \in 0..(Len(s) - Len(sub)) : SubSeq(s, i + 1, i + Len(sub)) = sub

\* " ".join(context.args)
RECURSIVE join(_)
join(args) ==
    IF args = <<>> THEN <<>>
    ELSE IF Len(args) = 1 THEN args[1]
    ELSE args[1] \o <<" ">> \o join(Tail(args))

bot_username == <<"B", "o">>
MentionToken == <<"@">> \o LowerSeq(bot_username)
AiToken == <<"/", "a", "i", "@">> \o LowerSeq(bot_username)


\* ----------------------------------------------------------------- inputs
T_hi == <<"H", "i">>                        \* no mention
T_bare == <<"@", "B", "O">>                 \* the mention alone, upper case
T_bare_sp == <<" ", "@", "b", "o", " ">>    \* the mention alone, padded
T_ask == <<"@", "b", "o", " ", "h">>        \* mention and a question
T_part == <<"@", "b">>                      \* not the whole token
Texts == {T_hi, T_bare, T_bare_sp, T_ask, T_part}

Tok1 == <<"H">>
Tok2 == <<"i">>
ArgLists == {<<>>, <<Tok1, Tok2>>}

Names == {"None", "alice"}                  \* user_obj.username
Replies == {NoReply, [from |-> BOT_ID, text |-> T_hi], [from |-> USER_B, text |-> NoText]}

GroupTypes == {"group", "supergroup"}

ChatOf(u, ctype) ==
    CASE ctype = "private" -> u
      [] ctype = "group" -> GROUP_ID
      [] OTHER -> SGROUP_ID

\* effective_user / effective_chat of an update
Ctx(u, ctype, uname) == [user |-> u, ctype |-> ctype, uname |-> uname]

CommandContexts ==
    {Ctx(OWNER_ID, "private", "None"), Ctx(USER_A, "private", "alice"), Ctx(USER_A, "group", "None")}

MessageContexts ==
    CommandContexts
    \cup {Ctx(USER_A, "private", "None"), Ctx(USER_A, "supergroup", "None"),
          Ctx(BOT_ID, "private", "None"), Ctx(BOT_ID, "group", "None")}

Senders == {OWNER_ID, USER_A, BOT_ID}

ArgCmds == {"notes", "explain", "mcq", "solve"}     \* /cmd <required argument>
StudyCmds == ArgCmds \cup {"summary", "quiz", "currentaffairs"}

Event(h, c, m, t, a, r) ==
    [handler |-> h, user |-> c.user, ctype |-> c.ctype, chat |-> ChatOf(c.user, c.ctype),
     uname |-> c.uname, msg |-> m, text |-> t, args |-> a, reply |-> r]

\* text messages, with and without a replied-to message, and updates whose
\* update.message is None (an edited message)
MessageEvents ==
    {Event("message", c, TRUE, t, <<>>, NoReply) : c \in MessageContexts, t \in Texts}
    \cup {Event("message", c, TRUE, t, <<>>, r) :
            c \in MessageContexts, t \in {T_hi, T_bare}, r \in Replies \ {NoReply}}
    \cup {Event("message", c, FALSE, NoText, <<>>, NoReply) : c \in MessageContexts}

CommandEvents ==
    {Event(h, c, TRUE, NoText, a, NoReply) :
            h \in ArgCmds \cup {"quiz", "summary", "broadcast"}, c \in CommandContexts, a \in ArgLists}
    \cup {Event(h, c, TRUE, NoText, <<>>, r) :
            h \in {"summary", "broadcast"}, c \in CommandContexts, r \in Replies \ {NoReply}}
    \cup {Event(h, c, TRUE, NoText, <<>>, NoReply) :
            h \in {"currentaffairs", "start", "help", "stats"}, c \in CommandContexts}

Events == MessageEvents \cup CommandEvents

\* ------------------------------------------------------------------ state
VARIABLES
    now,            \* the wall clock read by time() and datetime.utcnow()
    db_up,          \* whether the MongoDB server answers
    users_db,       \* db.users, in natural order
    groups_db,      \* db.groups, in natural order
    fb_users,       \* bot_data["users"], the in-memory fallback set
    fb_groups,      \* bot_data["groups"]
    rate_limits,    \* bot_data["rate_limits"]
    tasks,          \* handler invocations in flight, by slot
    last,           \* the handler invocation that ended in the step just taken, if any
    accepted,       \* history: per user, the calls of check_spam that returned 0
    reg_log,        \* history: per chat, the calls of register_chat
    nevents         \* updates dispatched so far

vars == <<now, db_up, users_db, groups_db, fb_users, fb_groups, rate_limits, tasks, last,
          accepted, reg_log, nevents>>

Slots == 1..MaxTasks

Chats == Senders \cup {GROUP_ID, SGROUP_ID}

\* A handler invocation: its update, its position, its local variables, and
\* what it has done so far.
\*   reg, treg    register_chat was called, and the clock it read (-1: not called)
\*   regok        its store write succeeded
\*   ts           the clock read inside check_spam (-1: not called)
\*   rl0, rl1     the sender's rate_limits entry at dispatch and at the end
\*   left         what check_spam returned (-1: not called)
\*   out          the replies attempted, in order;  raised: an exception left the handler
\*   ai           calls of ask_ai;  mode, prompt: its arguments;  answer: its result
\*   counts       the two counts read by /stats
\*   total        the size of db.users when /broadcast opened its cursor (-1: never)
\*   attempts     the sends /broadcast attempted;  sent, failed: its two counters
NewTask(ev) ==
    [pc |-> "entry", ev |-> ev, reg |-> FALSE, out |-> <<>>, raised |-> FALSE,
     treg |-> -1, regok |-> FALSE, ts |-> -1,
     left |-> -1, ai |-> 0, mode |-> "none", prompt |-> NoText, answer |-> "none",
     rl0 |-> rate_limits[ev.user], rl1 |-> NoEntry,
     text |-> NoText, counts |-> <<>>, sent |-> 0, failed |-> 0, attempts |-> <<>>,
     total |-> -1]

NoCalls == [called |-> FALSE, firstOk |-> -1, latestOk |-> -1, names |-> {}]

\* persisted documents of users who are not senders in this run
SeedUsers ==
    <<[user_id |-> USER_B, username |-> "None", first_seen |-> 0, last_seen |-> 0],
      [user_id |-> USER_C, username |-> "None", first_seen |-> 0, last_seen |-> 0]>>

Init ==
    /\ now = COOLDOWN_SECONDS      \* time() counts from the epoch, far more than one cooldown
    /\ db_up \in BOOLEAN
    /\ users_db = SeedUsers
    /\ groups_db = <<>>
    /\ fb_users = {}
    /\ fb_groups = {}
    /\ rate_limits = [u \in Senders |-> NoEntry]
    /\ tasks = [i \in Slots |-> Idle]
    /\ last = Idle
    /\ accepted = [u \in Senders |-> <<>>]
    /\ reg_log = [c \in Chats |-> NoCalls]
    /\ nevents = 0


\* ------------------------------------------------------------ rate limiter
\* check_spam with the window one second short
check_spam_short(rl, u, t) ==
    LET lastTs == IF rl[u] = NoEntry THEN 0 ELSE rl[u]
        diff == t - lastTs
    IN  IF diff < COOLDOWN_SECONDS - 1
        THEN [left |-> COOLDOWN_SECONDS - diff, rl |-> rl]
        ELSE [left |-> 0, rl |-> [rl EXCEPT ![u] = t]]

\* check_spam: the value returned and the map it leaves, for user u at time t
check_spam(rl, u, t) ==
    LET lastTs == IF rl[u] = NoEntry THEN 0 ELSE rl[u]
        diff == t - lastTs
    IN  IF diff < COOLDOWN_SECONDS
        THEN [left |-> COOLDOWN_SECONDS - diff, rl |-> rl]
        ELSE [left |-> 0, rl |-> [rl EXCEPT ![u] = t]]

\* check_spam that stores the time of a rejected call too
check_spam_extend(rl, u, t, cooldown) ==
    LET lastTs == IF rl[u] = NoEntry THEN 0 ELSE rl[u]
        diff == t - lastTs
    IN  IF diff < cooldown
        THEN [left |-> cooldown - diff, rl |-> [rl EXCEPT ![u] = t]]
        ELSE [left |-> 0, rl |-> [rl EXCEPT ![u] = t]]

\* check_spam on a clock finer than the second: t, the stored times and the
\* cooldown are counted in clock readings (time() returns a float)
check_spam_at(rl, u, t, cooldown) ==
    LET lastTs == IF rl[u] = NoEntry THEN 0 ELSE rl[u]
        diff == t - lastTs
    IN  IF diff < cooldown
        THEN [left |-> cooldown - diff, rl |-> rl]
        ELSE [left |-> 0, rl |-> [rl EXCEPT ![u] = t]]

\* ---------------------------------------------------------------- registry
HasKey(coll, key, id) == \E k \in 1..Len(coll) : coll[k][key] = id

FirstMatch(coll, key, id) ==
    CHOOSE k \in 1..Len(coll) :
        /\ coll[k][key] = id
        /\ \A j \in 1..(k - 1) : coll[j][key] # id

\* the upsert with first_seen under $set instead of $setOnInsert
UpsertUser_set(coll, id, uname, t) ==
    IF HasKey(coll, "user_id", id)
    THEN [coll EXCEPT ![FirstMatch(coll, "user_id", id)] =
              [@ EXCEPT !.last_seen = t, !.username = uname, !.first_seen = t]]
    ELSE Append(coll, [user_id |-> id, username |-> uname, first_seen |-> t, last_seen |-> t])

\* db.users.update_one({"user_id": id}, {$set: ..., $setOnInsert: ...}, upsert=True)
UpsertUser(coll, id, uname, t) ==
    IF HasKey(coll, "user_id", id)
    THEN [coll EXCEPT ![FirstMatch(coll, "user_id", id)] =
              [@ EXCEPT !.last_seen = t, !.username = uname]]
    ELSE Append(coll, [user_id |-> id, username |-> uname, first_seen |-> t, last_seen |-> t])

\* db.groups.update_one({"chat_id": id}, {$set: ..., $setOnInsert: ...}, upsert=True)
UpsertGroup(coll, id, ctype, t) ==
    IF HasKey(coll, "chat_id", id)
    THEN [coll EXCEPT ![FirstMatch(coll, "chat_id", id)] =
              [@ EXCEPT !.last_seen = t, !.type = ctype]]
    ELSE Append(coll, [chat_id |-> id, type |-> ctype, first_seen |-> t, last_seen |-> t])

\* register_chat that records private chats only
register_chat_private(ev) ==
    /\ users_db' = IF db_up /\ ev.ctype = "private"
                   THEN UpsertUser(users_db, ev.chat, ev.uname, now) ELSE users_db
    /\ fb_users' = IF ~db_up /\ ev.ctype = "private" THEN fb_users \cup {ev.chat} ELSE fb_users
    /\ UNCHANGED <<groups_db, fb_groups>>

\* register_chat(chat.id, chat.type, context, user_obj=user)
register_chat(ev) ==
    IF db_up
    THEN /\ users_db' = IF ev.ctype = "private"
                        THEN UpsertUser(users_db, ev.chat, ev.uname, now) ELSE users_db
         /\ groups_db' = IF ev.ctype = "private"
                         THEN groups_db ELSE UpsertGroup(groups_db, ev.chat, ev.ctype, now)
         /\ UNCHANGED <<fb_users, fb_groups>>
    ELSE /\ fb_users' = IF ev.ctype = "private" THEN fb_users \cup {ev.chat} ELSE fb_users
         /\ fb_groups' = IF ev.ctype = "private" THEN fb_groups ELSE fb_groups \cup {ev.chat}
         /\ UNCHANGED <<users_db, groups_db>>

\* history of the calls for one chat; a call's store write succeeds iff db_up
LogCall(l, uname) ==
    [called |-> TRUE,
     firstOk |-> IF db_up /\ l.firstOk = -1 THEN now ELSE l.firstOk,
     latestOk |-> IF db_up THEN now ELSE l.latestOk,
     names |-> l.names \cup {uname}]

NoRegistry == UNCHANGED <<users_db, groups_db, fb_users, fb_groups>>
NoLimiter == UNCHANGED <<rate_limits, accepted>>

\* ------------------------------------------------------ handler plumbing
\* The handler in slot i returns (or raises): its record becomes `last`.
Finish(i, t) ==
    /\ tasks' = [tasks EXCEPT ![i] = Idle]
    /\ last' = [t EXCEPT !.pc = "done", !.rl1 = rate_limits'[t.ev.user]]

\* await reply_text(kind) as the handler's last statement: the send is attempted,
\* and the handler ends whether or not the transport raised.
ReplyAndFinish(i, t, kind) ==
    \E ok \in BOOLEAN :
        Finish(i, [t EXCEPT !.out = Append(@, kind), !.raised = ~ok])

KindOf(h) == IF h = "message" THEN "text" ELSE "command"

\* remaining = check_spam(user.id, context); if remaining > 0: return reply(...)
RateLimit(i, t) ==
    LET cs == check_spam(rate_limits, t.ev.user, now)
    IN  /\ rate_limits' = cs.rl
        /\ IF cs.left > 0
           THEN /\ UNCHANGED accepted
                /\ ReplyAndFinish(i, [t EXCEPT !.left = cs.left, !.ts = now], "cooldown")
           ELSE /\ accepted' = [accepted EXCEPT ![t.ev.user] =
                                    Append(@, [ts |-> now, by |-> KindOf(t.ev.handler)])]
                /\ tasks' = [tasks EXCEPT ![i] =
                                 [t EXCEPT !.left = 0, !.ts = now, !.pc = "typing"]]
                /\ last' = Idle


\* --------------------------------------------------------------- dispatch
Running == {i \in Slots : tasks[i] # Idle}

\* The Application takes the next update and starts its handler; at most
\* `limit` handlers are in flight.
Deliver(limit, events) ==
    /\ nevents < MaxEvents
    /\ Cardinality(Running) < limit
    /\ \E ev \in events :
         LET i == CHOOSE j \in Slots : tasks[j] = Idle /\ \A k \in 1..(j - 1) : tasks[k] # Idle
         IN  tasks' = [tasks EXCEPT ![i] = NewTask(ev)]
    /\ nevents' = nevents + 1
    /\ last' = Idle
    /\ UNCHANGED <<now, db_up, users_db, groups_db, fb_users, fb_groups, rate_limits, accepted,
                   reg_log>>

Tick ==
    /\ now < MaxTime
    /\ now' = now + 1
    /\ last' = Idle
    /\ UNCHANGED <<db_up, users_db, groups_db, fb_users, fb_groups, rate_limits, tasks,
                   accepted, reg_log, nevents>>

\* The MongoDB server becomes unreachable, or reachable again.
StoreFlip ==
    /\ db_up' = ~db_up
    /\ last' = Idle
    /\ UNCHANGED <<now, users_db, groups_db, fb_users, fb_groups, rate_limits, tasks,
                   accepted, reg_log, nevents>>

\* ------------------------------------------------------- command handlers
\* start_command, the study commands and handle_message up to the end of
\* `await register_chat(...)`; handle_message returns first when the update
\* carries no message text.
Registering == StudyCmds \cup {"start", "message"}

\* handler_entry with register_chat letting the store's exception through
handler_entry_raise(i) ==
    LET t == tasks[i] IN
    /\ t.pc = "entry"
    /\ t.ev.handler \in Registering
    /\ IF t.ev.handler = "message" /\ ~t.ev.msg
       THEN /\ NoRegistry
            /\ NoLimiter
            /\ Finish(i, t)
            /\ UNCHANGED reg_log
       ELSE /\ register_chat(t.ev)
            /\ reg_log' = [reg_log EXCEPT ![t.ev.chat] = LogCall(@, t.ev.uname)]
            /\ NoLimiter
            /\ LET r == [t EXCEPT !.reg = TRUE, !.treg = now, !.regok = db_up, !.pc = "gate"]
               IN  IF db_up
                   THEN tasks' = [tasks EXCEPT ![i] = r] /\ last' = Idle
                   ELSE Finish(i, [r EXCEPT !.raised = TRUE])
    /\ UNCHANGED <<now, db_up, nevents>>

handler_entry(i) ==
    LET t == tasks[i] IN
    /\ t.pc = "entry"
    /\ t.ev.handler \in Registering
    /\ IF t.ev.handler = "message" /\ ~t.ev.msg
       THEN /\ NoRegistry
            /\ NoLimiter
            /\ Finish(i, t)
            /\ UNCHANGED reg_log
       ELSE /\ register_chat(t.ev)
            /\ reg_log' = [reg_log EXCEPT ![t.ev.chat] = LogCall(@, t.ev.uname)]
            /\ tasks' = [tasks EXCEPT ![i] = [t EXCEPT !.reg = TRUE, !.treg = now, !.regok = db_up, !.pc = "gate"]]
            /\ last' = Idle
            /\ NoLimiter
    /\ UNCHANGED <<now, db_up, nevents>>

\* start_command after registration: one welcome message (photo or text)
start_command(i) ==
    LET t == tasks[i] IN
    /\ t.pc = "gate"
    /\ t.ev.handler = "start"
    /\ NoLimiter
    /\ ReplyAndFinish(i, t, "welcome")
    /\ NoRegistry
    /\ UNCHANGED <<now, db_up, reg_log, nevents>>

help_command(i) ==
    LET t == tasks[i] IN
    /\ t.pc = "entry"
    /\ t.ev.handler = "help"
    /\ NoLimiter
    /\ ReplyAndFinish(i, t, "help")
    /\ NoRegistry
    /\ UNCHANGED <<now, db_up, reg_log, nevents>>

T_gk == <<"g", "k">>        \* "general knowledge"
T_ca == <<"c", "a">>        \* the fixed current-affairs prompt

\* the local variable topic / text / question of a study command
Topic(ev) ==
    LET arg == strip(join(ev.args)) IN
    CASE ev.handler = "summary" ->
             IF arg = <<>> /\ ev.reply # NoReply THEN ev.reply.text ELSE arg
      [] ev.handler = "quiz" -> IF arg = <<>> THEN T_gk ELSE arg
      [] ev.handler = "currentaffairs" -> T_ca
      [] OTHER -> arg

\* `text is not None` in place of truthiness
Truthy_notNone(text) == text # NoText

\* Python truthiness of a text: None and "" are false
Truthy(text) == text # NoText /\ text # <<>>

ModeOf(h) == IF h = "currentaffairs" THEN "current" ELSE IF h = "message" THEN "default" ELSE h

\* notes_command .. current_affairs_command from the argument check to
\* the cooldown check
study_command(i) ==
    LET t == tasks[i]
        text == Topic(t.ev)
    IN
    /\ t.pc = "gate"
    /\ t.ev.handler \in StudyCmds
    /\ IF ~Truthy(text)
       THEN /\ NoLimiter
            /\ ReplyAndFinish(i, t, "usage")
       ELSE RateLimit(i, [t EXCEPT !.text = text])
    /\ NoRegistry
    /\ UNCHANGED <<now, db_up, reg_log, nevents>>

\* ------------------------------------------------------------ free text
IsGroup(ev) == ev.ctype \in {"group", "supergroup"}

\* any "@" taken for a mention
Mentioned_at(text) == Contains(<<"@">>, LowerSeq(text))

Mentioned(text) == bot_username # <<>> /\ Contains(MentionToken, LowerSeq(text))

ReplyToBot(ev) == ev.reply # NoReply /\ ev.reply.from = BOT_ID

\* the comparison without lower()
BareMention_exact(text) == strip(text) \in {MentionToken, AiToken}

BareMention(text) == strip(LowerSeq(text)) \in {MentionToken, AiToken}

\* handle_message from the group logic to the cooldown check
handle_message(i) ==
    LET t == tasks[i]
        text == strip(t.ev.text)
    IN
    /\ t.pc = "gate"
    /\ t.ev.handler = "message"
    /\ IF IsGroup(t.ev) /\ ~(Mentioned(text) \/ ReplyToBot(t.ev))
       THEN /\ NoLimiter
            /\ Finish(i, t)
       ELSE IF IsGroup(t.ev) /\ Mentioned(text) /\ BareMention(text)
       THEN /\ NoLimiter
            /\ ReplyAndFinish(i, t, "notice")
       ELSE RateLimit(i, [t EXCEPT !.text = text])
    /\ NoRegistry
    /\ UNCHANGED <<now, db_up, reg_log, nevents>>

\* await chat.send_action(ChatAction.TYPING): a transport error ends the handler
send_action(i) ==
    LET t == tasks[i] IN
    /\ t.pc = "typing"
    /\ NoLimiter
    /\ \E ok \in BOOLEAN :
         IF ok
         THEN tasks' = [tasks EXCEPT ![i] = [t EXCEPT !.pc = "ask"]] /\ last' = Idle
         ELSE Finish(i, [t EXCEPT !.raised = TRUE])
    /\ NoRegistry
    /\ UNCHANGED <<now, db_up, reg_log, nevents>>

\* reply = await ask_ai(prompt, mode): the provider's text, or the fallback
\* string when the provider call raises
ask_ai(i) ==
    LET t == tasks[i] IN
    /\ t.pc = "ask"
    /\ \E res \in {"answer", "fallback"} :
         tasks' = [tasks EXCEPT ![i] =
                      [t EXCEPT !.ai = @ + 1, !.mode = ModeOf(t.ev.handler),
                                !.prompt = t.text, !.answer = res, !.pc = "reply"]]
    /\ last' = Idle
    /\ UNCHANGED <<now, db_up, users_db, groups_db, fb_users, fb_groups, rate_limits,
                   accepted, reg_log, nevents>>

\* await update.message.reply_text(reply)
reply_text(i) ==
    LET t == tasks[i] IN
    /\ t.pc = "reply"
    /\ NoLimiter
    /\ ReplyAndFinish(i, t, t.answer)
    /\ NoRegistry
    /\ UNCHANGED <<now, db_up, reg_log, nevents>>


\* ------------------------------------------------------- owner commands
\* the guard left out
IsOwner_any(user) == TRUE

\* update.effective_user.id != OWNER_ID: return
IsOwner(user) == user = OWNER_ID

\* stats_command: two counts and one report; any exception inside the try,
\* the report's own send included, leads to the error reply
stats_command(i) ==
    LET t == tasks[i] IN
    /\ t.pc = "entry"
    /\ t.ev.handler = "stats"
    /\ NoLimiter
    /\ IF ~IsOwner(t.ev.user)
       THEN Finish(i, t)
       ELSE IF db_up
       THEN LET r == [t EXCEPT !.counts = <<Len(users_db), Len(groups_db)>>,
                               !.out = Append(@, "stats")]
            IN  \/ Finish(i, r)
                \/ ReplyAndFinish(i, r, "dberror")
       ELSE ReplyAndFinish(i, t, "dberror")
    /\ NoRegistry
    /\ UNCHANGED <<now, db_up, reg_log, nevents>>

\* the local variable text of broadcast_command
BroadcastText(ev) ==
    LET arg == strip(join(ev.args)) IN
    IF arg = <<>> /\ ev.reply # NoReply THEN ev.reply.text ELSE arg

\* broadcast_command up to `sent = 0; failed = 0`
broadcast_command(i) ==
    LET t == tasks[i]
        text == BroadcastText(t.ev)
    IN
    /\ t.pc = "entry"
    /\ t.ev.handler = "broadcast"
    /\ NoLimiter
    /\ IF ~IsOwner(t.ev.user)
       THEN Finish(i, t)
       ELSE IF ~Truthy(text)
       THEN ReplyAndFinish(i, t, "usage")
       ELSE /\ tasks' = [tasks EXCEPT ![i] =
                            [t EXCEPT !.text = text, !.pc = "iter", !.total = Len(users_db)]]
            /\ last' = Idle
    /\ NoRegistry
    /\ UNCHANGED <<now, db_up, reg_log, nevents>>

\* the loop body counting a failed send as sent
SendTo_sent(t, uid, ok) ==
    [t EXCEPT !.attempts = Append(@, [uid |-> uid, ok |-> ok, slept |-> ok]),
              !.sent = @ + 1]

\* the body of the loop for one document: send_message to uid succeeds
\* (sent += 1, then the sleep) or raises (failed += 1)
SendTo(t, uid, ok) ==
    [t EXCEPT !.attempts = Append(@, [uid |-> uid, ok |-> ok, slept |-> ok]),
              !.sent = IF ok THEN @ + 1 ELSE @,
              !.failed = IF ok THEN @ ELSE @ + 1]

\* one turn of `async for u in cursor`: the next document is fetched and the
\* message is sent to its user_id; asyncio.sleep follows a successful send only
broadcast_send(i) ==
    LET t == tasks[i]
        k == Len(t.attempts) + 1
    IN
    /\ t.pc = "iter"
    /\ db_up
    /\ k <= Len(users_db)
    /\ \E ok \in BOOLEAN :
         tasks' = [tasks EXCEPT ![i] = SendTo(t, users_db[k].user_id, ok)]
    /\ last' = Idle
    /\ UNCHANGED <<now, db_up, users_db, groups_db, fb_users, fb_groups, rate_limits,
                   accepted, reg_log, nevents>>

\* the cursor is exhausted: the summary reply; if that reply raises, the outer
\* except sends the error reply
broadcast_report(i) ==
    LET t == tasks[i] IN
    /\ t.pc = "iter"
    /\ db_up
    /\ Len(t.attempts) >= Len(users_db)
    /\ NoLimiter
    /\ \/ Finish(i, [t EXCEPT !.out = Append(@, "summary")])
       \/ ReplyAndFinish(i, [t EXCEPT !.out = Append(@, "summary")], "dberror")
    /\ NoRegistry
    /\ UNCHANGED <<now, db_up, reg_log, nevents>>

\* the cursor raises (server unreachable): the outer except sends the error reply
broadcast_dberror(i) ==
    LET t == tasks[i] IN
    /\ t.pc = "iter"
    /\ ~db_up
    /\ NoLimiter
    /\ ReplyAndFinish(i, t, "dberror")
    /\ NoRegistry
    /\ UNCHANGED <<now, db_up, reg_log, nevents>>

\* ---------------------------------------------------------- specification
Step(i) ==
    \/ handler_entry(i)
    \/ start_command(i)
    \/ help_command(i)
    \/ study_command(i)
    \/ handle_message(i)
    \/ send_action(i)
    \/ ask_ai(i)
    \/ reply_text(i)
    \/ stats_command(i)
    \/ broadcast_command(i)
    \/ broadcast_send(i)
    \/ broadcast_report(i)
    \/ broadcast_dberror(i)

\* main(): ApplicationBuilder().token(...).build() leaves concurrent_updates
\* off, so an update's handler runs to its end before the next is dispatched.
Next ==
    \/ Deliver(concurrent_updates, Events)
    \/ Tick
    \/ StoreFlip
    \/ \E i \in Slots : Step(i)

Spec == Init /\ [][Next]_vars

\* The same handlers with up to MaxTasks invocations in flight at once, their
\* steps interleaved at every await: what the handlers do under any scheduling
\* of the event loop.  One user's rate-limited updates, in a private chat and
\* in a group.
ConcEvents ==
    {e \in Events : /\ e.user = USER_A
                    /\ e.handler \in {"message", "notes", "quiz", "currentaffairs", "help"}
                    /\ e.msg
                    /\ e.uname = "alice" \/ (e.ctype = "group" /\ e.handler = "message")
                    /\ e.reply = NoReply
                    /\ e.text \in {NoText, T_ask}}

StepConc(i) ==
    \/ handler_entry(i)
    \/ help_command(i)
    \/ study_command(i)
    \/ handle_message(i)
    \/ send_action(i)
    \/ ask_ai(i)
    \/ reply_text(i)

NextConc ==
    \/ Deliver(MaxTasks, ConcEvents)
    \/ Tick
    \/ StoreFlip
    \/ \E i \in Slots : StepConc(i)

SpecConc == Init /\ [][NextConc]_vars

\* ------------------------------------------------- the rate limiter alone
\* The cooldown check of a handler on a clock of Resolution readings per
\* second, called any number of times for a few users:
\*     remaining = check_spam(user.id, context)
\*     if remaining > 0: reply_text(f"... {int(remaining)} sec baad try karo.")
LimiterUsers == {USER_A, OWNER_ID}

\* int(x) of a non-negative float x, given in clock readings: whole seconds
int(x) == x \div Resolution

InitLimiter ==
    /\ now \in 0..(COOLDOWN_SECONDS * Resolution)
    /\ db_up = TRUE
    /\ users_db = SeedUsers
    /\ groups_db = <<>>
    /\ fb_users = {}
    /\ fb_groups = {}
    /\ rate_limits = [u \in Senders |-> NoEntry]
    /\ tasks = [i \in Slots |-> Idle]
    /\ last = Idle
    /\ accepted = [u \in Senders |-> <<>>]
    /\ reg_log = [c \in Chats |-> NoCalls]
    /\ nevents = 0

\* One call for user u.  `last` is the call just made:
\*   ts, rl0, rl1   the clock, and u's entry before and after
\*   left           the value returned;  notice: the number the reply states
\*   since          the calls just before this one that were u's and rejected
rate_limit(u) ==
    LET cs == check_spam_at(rate_limits, u, now, COOLDOWN_SECONDS * Resolution)
        since == IF last # Idle /\ last.ev.user = u THEN last.rejects ELSE 0
    IN  /\ nevents < MaxCalls
        /\ nevents' = nevents + 1
        /\ rate_limits' = cs.rl
        /\ accepted' = IF cs.left > 0 THEN accepted
                       ELSE [accepted EXCEPT ![u] = Append(@, [ts |-> now, by |-> "call"])]
        /\ last' = [pc |-> "done", ev |-> [user |-> u, handler |-> "check_spam"],
                    ts |-> now, rl0 |-> rate_limits[u], rl1 |-> cs.rl[u], left |-> cs.left,
                    notice |-> IF cs.left > 0 THEN int(cs.left) ELSE -1,
                    since |-> since, rejects |-> IF cs.left > 0 THEN since + 1 ELSE 0]
        /\ UNCHANGED <<now, db_up, users_db, groups_db, fb_users, fb_groups, tasks, reg_log>>

\* the clock advances by one reading
clock ==
    /\ now < MaxTime * Resolution
    /\ now' = now + 1
    /\ UNCHANGED <<db_up, users_db, groups_db, fb_users, fb_groups, rate_limits, tasks, last,
                   accepted, reg_log, nevents>>

NextLimiter ==
    \/ clock
    \/ \E u \in LimiterUsers : rate_limit(u)

SpecLimiter == InitLimiter /\ [][NextLimiter]_vars


\* ================================================================ properties
Ended == last # Idle

\* every handler invocation in view: those in flight and the one that just ended
AllTasks == {tasks[i] : i \in Running} \cup (IF Ended THEN {last} ELSE {})

Elems(seq) == {seq[k] : k \in 1..Len(seq)}

\* the documents of chat c in its collection
RecordsOf(c) ==
    IF c \in {GROUP_ID, SGROUP_ID}
    THEN {groups_db[k] : k \in {j \in 1..Len(groups_db) : groups_db[j].chat_id = c}}
    ELSE {users_db[k] : k \in {j \in 1..Len(users_db) : users_db[j].user_id = c}}

TheRecord(c) == CHOOSE r \in RecordsOf(c) : TRUE

\* chat c is recorded somewhere: in the store or in a fallback set
Known(c) == RecordsOf(c) # {} \/ c \in fb_users \cup fb_groups

\* ---------------------------------------------------------------------- C1
\* C1: for every user, any two interactions that check_spam accepted are at
\* least COOLDOWN_SECONDS apart, under any interleaving of the handlers.
C1_CooldownGap ==
    \A u \in Senders : \A j, k \in 1..Len(accepted[u]) :
        j < k => accepted[u][k].ts - accepted[u][j].ts >= COOLDOWN_SECONDS

\* two invocations of one user in flight together: the first was accepted
\* and is still running, the second has just been rejected
C1_Witness ==
    /\ Ended
    /\ last.left > 0
    /\ \E i \in Running : tasks[i].ev.user = last.ev.user /\ tasks[i].left = 0

\* ---------------------------------------------------------------------- C2
\* The interactions that reach check_spam: a study command whose argument is
\* present, and free text that passes the group gate with more than a mention.
C2_Limited(ev) ==
    \/ ev.handler \in StudyCmds /\ Topic(ev) # NoText /\ Topic(ev) # <<>>
    \/ /\ ev.handler = "message"
       /\ ev.msg
       /\ IsGroup(ev) =>
            /\ Contains(MentionToken, LowerSeq(ev.text)) \/ ReplyToBot(ev)
            /\ LowerSeq(strip(ev.text)) # MentionToken

\* a command any user may send, given with the argument it needs
C2_Complete(ev) ==
    \/ ev.handler \in {"help", "start"}
    \/ ev.handler \in StudyCmds /\ Topic(ev) # NoText /\ Topic(ev) # <<>>

\* C2 as stated: any command of a user that ends within the cooldown of the
\* user's last accepted interaction was rejected with
\* cooldown - (t2 - t1) and did not call ask_ai.
C2_AnyCommandRejected ==
    (Ended /\ C2_Complete(last.ev) /\ last.rl0 # NoEntry
        /\ now - last.rl0 < COOLDOWN_SECONDS)
    => /\ last.left = COOLDOWN_SECONDS - ((IF last.ts = -1 THEN now ELSE last.ts) - last.rl0)
       /\ last.ai = 0

\* C2 (amended): the cooldown is shared by the study commands given with their
\* argument and by free text that passes the group gate: such an interaction
\* reaches check_spam, and inside the cooldown of the user's last accepted
\* interaction it is rejected with cooldown - (t2 - t1), with the cooldown
\* notice as its only reply, no ask_ai call and the entry unchanged.  Every
\* other interaction (/help, /start, /stats, /broadcast, a usage error, a gated
\* or bare-mention group message) never reaches check_spam and never calls ask_ai.
C2_SharedCooldown ==
    Ended =>
        /\ C2_Limited(last.ev) => last.ts # -1
        /\ (C2_Limited(last.ev) /\ last.rl0 # NoEntry
                /\ last.ts - last.rl0 < COOLDOWN_SECONDS)
           => /\ last.left = COOLDOWN_SECONDS - (last.ts - last.rl0)
              /\ last.left > 0
              /\ last.out = <<"cooldown">>
              /\ last.ai = 0
              /\ last.rl1 = last.rl0
        /\ ~C2_Limited(last.ev) => last.ts = -1 /\ last.left = -1 /\ last.ai = 0

\* a command rejected one second after the same user's free text was accepted
C2_Witness ==
    /\ Ended
    /\ last.ev.handler \in StudyCmds
    /\ last.rl0 # NoEntry
    /\ last.ts - last.rl0 = 1
    /\ last.left = COOLDOWN_SECONDS - 1
    /\ accepted[last.ev.user][Len(accepted[last.ev.user])].by = "text"

\* ---------------------------------------------------------------------- C3
\* the text in which a mention could stand
C3_TextOf(ev) == IF ev.handler = "message" THEN ev.text ELSE join(ev.args)

\* a group update with no mention of the bot that is no reply to the bot
C3_Unaddressed(ev) ==
    /\ ev.msg
    /\ IsGroup(ev)
    /\ ~Contains(MentionToken, LowerSeq(C3_TextOf(ev)))
    /\ ~(ev.reply # NoReply /\ ev.reply.from = BOT_ID)

\* C3 as stated: every unaddressed group update, free text or slash command,
\* gets no reply and no ask_ai call.
C3_AllSilent ==
    \A t \in AllTasks : C3_Unaddressed(t.ev) => t.out = <<>> /\ t.ai = 0

\* C3 (amended): every unaddressed free-text group message handled by
\* handle_message ends silently: no reply, no ask_ai call, check_spam not
\* reached.  (Slash commands are answered in groups without a mention.)
C3_FreeTextSilent ==
    \A t \in AllTasks :
        (t.ev.handler = "message" /\ C3_Unaddressed(t.ev))
        => t.out = <<>> /\ t.ai = 0 /\ t.left = -1 /\ ~t.raised

\* a group message "@b", a reply to another user, has just been dropped
C3_Witness ==
    /\ Ended
    /\ last.ev.handler = "message"
    /\ IsGroup(last.ev)
    /\ last.ev.text = T_part
    /\ last.reg
    /\ last.out = <<>>

\* ---------------------------------------------------------------------- C4
C4_OnlyMention(ev) ==
    /\ ev.handler = "message"
    /\ ev.msg
    /\ IsGroup(ev)
    /\ LowerSeq(strip(ev.text)) = MentionToken

\* C4: a group message that is only the mention gets exactly one reply, the
\* notice; ask_ai is not called and the sender's rate-limit entry is as it
\* was, check_spam not being reached, inside a cooldown or not.
C4_BareMentionNotice ==
    (Ended /\ C4_OnlyMention(last.ev))
    => /\ last.out = <<"notice">>
       /\ last.ai = 0
       /\ last.left = -1
       /\ last.rl1 = last.rl0

\* the sender is inside the cooldown of an accepted interaction
C4_Witness ==
    /\ Ended
    /\ C4_OnlyMention(last.ev)
    /\ last.ev.text = T_bare
    /\ last.rl0 # NoEntry
    /\ now - last.rl0 < COOLDOWN_SECONDS
    /\ last.out = <<"notice">>

\* ---------------------------------------------------------------------- C5
\* C5: an update sent by the bot itself gets no reply, no ask_ai call, and
\* check_spam is not reached.
C5_SelfSilent ==
    \A t \in AllTasks :
        t.ev.user = BOT_ID => t.out = <<>> /\ t.ai = 0 /\ t.left = -1


\* ---------------------------------------------------------------------- C6
\* the broadcasts that opened their cursor
Broadcasts == {t \in AllTasks : t.ev.handler = "broadcast" /\ t.total # -1}

\* C6: a broadcast over a listing of N ids attempts one send per id, in the
\* order of the listing and none twice; sent counts the sends that succeeded
\* and failed those that raised, so sent + failed is the number of targets
\* processed and at most N at every moment; a failure does not end the loop,
\* and the summary follows the N-th attempt with sent = N - k, failed = k.
C6_BroadcastAccounting ==
    \A t \in Broadcasts :
        LET n == Len(t.attempts) IN
        /\ t.sent + t.failed = n
        /\ n <= t.total
        /\ t.total = Len(users_db)
        /\ \A k \in 1..n : t.attempts[k].uid = users_db[k].user_id
        /\ \A j, k \in 1..n : j # k => t.attempts[j].uid # t.attempts[k].uid
        /\ t.sent = Cardinality({k \in 1..n : t.attempts[k].ok})
        /\ t.failed = Cardinality({k \in 1..n : ~t.attempts[k].ok})
        /\ "summary" \in Elems(t.out) => n = t.total

\* a broadcast has ended with its summary after a failed first send and a
\* successful second one
C6_Witness ==
    /\ Ended
    /\ last.ev.handler = "broadcast"
    /\ last.out = <<"summary">>
    /\ Len(last.attempts) >= 2
    /\ ~last.attempts[1].ok
    /\ last.attempts[2].ok
    /\ last.sent = Len(last.attempts) - 1
    /\ last.failed = 1

\* ---------------------------------------------------------------------- C7
C7_Denied(ev) == ev.handler \in {"broadcast", "stats"} /\ ev.user # OWNER_ID

\* C7: /broadcast or /stats from anyone but the owner does nothing: no reply,
\* no send, no count and no cursor on the store, no registration, and the
\* caller's rate-limit entry is untouched, whatever the arguments.
C7_NonOwnerIgnored ==
    \A t \in AllTasks :
        C7_Denied(t.ev)
        => /\ t.pc \in {"entry", "done"}
           /\ t.out = <<>>
           /\ t.attempts = <<>>
           /\ t.counts = <<>>
           /\ t.total = -1
           /\ ~t.reg
           /\ t.left = -1
           /\ t.ai = 0
           /\ t.pc = "done" => t.rl1 = t.rl0

\* a user's /broadcast with a message text has just been ignored
C7_Witness ==
    /\ Ended
    /\ last.ev.handler = "broadcast"
    /\ last.ev.user = USER_A
    /\ last.ev.args # <<>>
    /\ last.out = <<>>

\* ---------------------------------------------------------------------- C8
\* C8 as stated: once register_chat has been called for a chat there is
\* exactly one record of it, with last_seen >= first_seen and last_seen the
\* time of the latest call.
C8_AlwaysOneRecord ==
    /\ \A c \in Chats :
          reg_log[c].called
          => /\ Cardinality(RecordsOf(c)) = 1
             /\ TheRecord(c).last_seen >= TheRecord(c).first_seen
    /\ \A t \in AllTasks :
          t.reg => \E r \in RecordsOf(t.ev.chat) : r.last_seen = t.treg

\* C8 (amended): register_chat is idempotent over the calls whose store write
\* succeeds: a chat has no record before the first such call and exactly one
\* after it, whose first_seen is the time of that first successful call and
\* never changes, whose last_seen is the time of the latest successful call,
\* and last_seen >= first_seen.  A call made while the store is unreachable
\* leaves the records as they are and adds the id to the fallback set.
C8_RegisterIdempotent ==
    /\ \A c \in Chats :
          /\ Cardinality(RecordsOf(c)) <= 1
          /\ reg_log[c].firstOk = -1 => RecordsOf(c) = {}
          /\ reg_log[c].firstOk # -1
             => /\ Cardinality(RecordsOf(c)) = 1
                /\ TheRecord(c).first_seen = reg_log[c].firstOk
                /\ TheRecord(c).last_seen = reg_log[c].latestOk
                /\ TheRecord(c).last_seen >= TheRecord(c).first_seen
          /\ (reg_log[c].called /\ reg_log[c].firstOk = -1) => c \in fb_users \cup fb_groups
    /\ \A t \in AllTasks :
          (t.reg /\ t.regok) => \E r \in RecordsOf(t.ev.chat) : r.last_seen = t.treg

\* a user registered twice, under two usernames and at two times
C8_Witness ==
    \E c \in Chats :
        /\ Cardinality(reg_log[c].names) = 2
        /\ reg_log[c].firstOk # -1
        /\ reg_log[c].firstOk < reg_log[c].latestOk
        /\ Cardinality(RecordsOf(c)) = 1

\* ---------------------------------------------------------------------- C9
\* C9 as stated: every handler invocation that ended had called register_chat
\* (here for the updates that carry a message and are not an unauthorized
\* owner command).
C9_AlwaysRegistered == (Ended /\ last.ev.msg /\ ~C7_Denied(last.ev)) => last.reg

\* C9 (amended): /start, the seven study commands and handle_message on a
\* text message call register_chat before anything else: until it is called
\* there is no reply, no ask_ai call and no check_spam, and from then on the
\* chat is recorded (in the store or a fallback set) whatever the outcome.
\* /help, /stats, /broadcast and an update without message text end without
\* calling it.
C9_RegisterFirst ==
    \A t \in AllTasks :
        IF t.ev.handler \in Registering /\ t.ev.msg
        THEN /\ t.pc # "entry" => t.reg /\ Known(t.ev.chat)
             /\ ~t.reg => t.out = <<>> /\ t.ai = 0 /\ t.left = -1
        ELSE ~t.reg

\* a group message was ignored, and its chat is recorded all the same
C9_Witness ==
    /\ Ended
    /\ last.ev.handler = "message"
    /\ IsGroup(last.ev)
    /\ last.out = <<>>
    /\ last.reg
    /\ Known(last.ev.chat)

\* --------------------------------------------------------------------- C10
\* a command without the argument it requires
C10_MissingArg(ev) ==
    /\ ev.args = <<>>
    /\ \/ ev.handler \in ArgCmds
       \/ /\ ev.handler = "summary" \/ (ev.handler = "broadcast" /\ ev.user = OWNER_ID)
          /\ ev.reply = NoReply \/ ev.reply.text = NoText

\* C10: a command without its required argument (for /summary: and no
\* replied-to text) gets the usage hint as its only reply, calls ask_ai never
\* and leaves the sender's rate-limit entry as it was, check_spam not being
\* reached; /summary without argument in reply to a message with text uses
\* that text as the prompt.
C10_UsageNoCharge ==
    /\ (Ended /\ C10_MissingArg(last.ev))
       => /\ last.out = <<"usage">>
          /\ last.ai = 0
          /\ last.left = -1
          /\ last.rl1 = last.rl0
    /\ \A t \in AllTasks :
          (t.ev.handler = "summary" /\ t.ev.args = <<>> /\ t.ev.reply # NoReply
              /\ t.ev.reply.text # NoText)
          => /\ "usage" \notin Elems(t.out)
             /\ t.pc \in {"typing", "ask", "reply"} => t.text = t.ev.reply.text
             /\ t.ai > 0 => t.prompt = t.ev.reply.text /\ t.mode = "summary"

\* a usage error inside the cooldown of an accepted interaction
C10_Witness ==
    /\ Ended
    /\ C10_MissingArg(last.ev)
    /\ last.ev.handler \in ArgCmds \cup {"summary"}
    /\ last.rl0 # NoEntry
    /\ now - last.rl0 < COOLDOWN_SECONDS
    /\ last.out = <<"usage">>

\* ---------------------------------------------------------------------- C11
\* the remaining time r of a rejected call, in clock readings, rounded up to
\* whole seconds
Ceiling(r) == (r + Resolution - 1) \div Resolution

\* C11: when check_spam rejects a call with r > 0 seconds left (here inside the
\* cooldown of an earlier accepted call), the number stated in the cooldown
\* notice is the integer ceiling of r: never less than the time left and
\* never 0.
C11_NoticeCeiling ==
    (last # Idle /\ last.left > 0 /\ last.rl0 # NoEntry) =>
        /\ last.notice = Ceiling(last.left)
        /\ last.notice * Resolution >= last.left
        /\ last.notice >= 1

\* ---------------------------------------------------------------------- C12
\* C12: a call for a user with no rate-limit entry is accepted whatever the
\* clock reads, and stores that reading as the user's entry.
C12_UnknownAccepted ==
    (last # Idle /\ last.rl0 = NoEntry) =>
        /\ last.left = 0
        /\ last.rl1 = last.ts

\* ---------------------------------------------------------------------- C13
\* C13: a call made a full cooldown or more after the user's last accepted
\* call (including exactly one cooldown after) is accepted and becomes the new
\* entry, however many calls were rejected in between; a rejected call leaves
\* the entry unchanged, so the entry is always the time of the user's last
\* accepted call.
C13_RejectionsDoNotExtend ==
    /\ last # Idle =>
          /\ (last.rl0 # NoEntry /\ last.ts - last.rl0 >= COOLDOWN_SECONDS * Resolution) =>
                 (last.left = 0 /\ last.rl1 = last.ts)
          /\ last.left > 0 => last.rl1 = last.rl0
    /\ \A u \in LimiterUsers :
          rate_limits[u] # NoEntry =>
              /\ accepted[u] # <<>>
              /\ rate_limits[u] = accepted[u][Len(accepted[u])].ts

\* a call accepted exactly one cooldown after the previous accepted one, with
\* two rejected calls in between
C13_Witness ==
    /\ last # Idle
    /\ last.left = 0
    /\ last.rl0 # NoEntry
    /\ last.ts - last.rl0 = COOLDOWN_SECONDS * Resolution
    /\ last.since >= 2

\* ---------------------------------------------------------------------- C14
\* C14: when the store is unavailable as a broadcast ends, whether the listing
\* failed when it was opened or while it was iterated, no send has been
\* attempted and the operator's one reply is the store-error report.
C14_StoreFailureZeroTargets ==
    (Ended /\ last.ev.handler = "broadcast" /\ last.total # -1 /\ ~db_up) =>
        /\ last.attempts = <<>>
        /\ last.out = <<"dberror">>

\* ---------------------------------------------------------------------- C15
\* what a handler that registers must have done, told from its update, the
\* sender's rate-limit entry and the clock alone
C15_Outcome(t) ==
    LET ev == t.ev
        text == IF ev.handler = "message" THEN strip(ev.text) ELSE Topic(ev)
        cs == check_spam([rate_limits EXCEPT ![ev.user] = t.rl0], ev.user, t.ts)
        untouched == t.left = -1 /\ t.ai = 0 /\ t.rl1 = t.rl0
    IN  CASE ev.handler = "start" -> t.out = <<"welcome">> /\ untouched
          [] ev.handler \in StudyCmds /\ ~Truthy(text) -> t.out = <<"usage">> /\ untouched
          [] ev.handler = "message" /\ IsGroup(ev) /\ ~(Mentioned(text) \/ ReplyToBot(ev)) ->
                 t.out = <<>> /\ ~t.raised /\ untouched
          [] ev.handler = "message" /\ IsGroup(ev) /\ Mentioned(text) /\ BareMention(text) ->
                 t.out = <<"notice">> /\ untouched
          [] OTHER ->
                 /\ t.ts # -1
                 /\ t.left = cs.left
                 /\ t.rl1 = cs.rl[ev.user]
                 /\ IF cs.left > 0
                    THEN t.out = <<"cooldown">> /\ t.ai = 0
                    ELSE \/ t.ai = 1 /\ t.out = <<t.answer>>
                         \/ t.ai = 0 /\ t.out = <<>> /\ t.raised

\* C15: a handler that called register_chat ends as its update, the rate
\* limiter and the transport dictate, the same whether the store write inside
\* register_chat succeeded or raised; when it raised, register_chat returned
\* normally with the chat id in the fallback set of its kind and no document
\* written.
C15_RegistryFailureHarmless ==
    (Ended /\ last.reg) =>
        /\ C15_Outcome(last)
        /\ ~last.regok =>
              IF last.ev.ctype = "private"
              THEN last.ev.chat \in fb_users
              ELSE last.ev.chat \in fb_groups

\* a private question was answered although its registration failed and the
\* sender has no document
C15_Witness ==
    /\ Ended
    /\ last.ev.handler = "message"
    /\ last.ev.ctype = "private"
    /\ last.reg
    /\ ~last.regok
    /\ last.ev.chat \in fb_users
    /\ RecordsOf(last.ev.chat) = {}
    /\ last.left = 0
    /\ last.ai = 1
    /\ last.out = <<"answer">>

\* ---------------------------------------------------------------------- C16
\* C16: a handled update ends with at most one reply; an interaction accepted
\* by check_spam calls ask_ai exactly once and ends with exactly one reply, the
\* provider's text or the fallback string; an interaction not accepted never
\* calls ask_ai.
C16_AcceptedIsAnswered ==
    (Ended /\ last.ev.handler \in StudyCmds \cup {"message"}) =>
        /\ Len(last.out) <= 1
        /\ last.left = 0 => (last.ai = 1 /\ last.out \in {<<"answer">>, <<"fallback">>})
        /\ last.left # 0 => last.ai = 0

\* ---------------------------------------------------------------------- C17
\* C17: in a broadcast every send attempt but the last made so far was
\* followed by the throttle delay, whether it succeeded or failed.
C17_ThrottleBetweenSends ==
    \A t \in Broadcasts :
        \A k \in 1..(Len(t.attempts) - 1) : t.attempts[k].slept

\* ---------------------------------------------------------------------- C18
\* C18: a broadcast between its first and its last recipient does not block
\* dispatch: the next update can be handed to its handler.
C18_DispatchNotBlocked ==
    \A i \in Slots :
        (/\ tasks[i].pc = "iter"
         /\ Len(tasks[i].attempts) > 0
         /\ Len(tasks[i].attempts) < tasks[i].total
         /\ nevents < MaxEvents)
        => ENABLED Deliver(concurrent_updates, Events)

\* ---------------------------------------------------------------------- C19
\* C19: a broadcast whose listing was read to its end replies to the operator
\* once, with the summary; the store-error report is not sent.
C19_ErrorReportOnlyOnStoreFailure ==
    (Ended /\ last.ev.handler = "broadcast" /\ last.out # <<>> /\ last.out[1] = "summary") =>
        last.out = <<"summary">>

\* ---------------------------------------------------------------------- C20
\* the private chats register_chat has been called for
C20_Registered == {u \in Senders : reg_log[u].called}

\* C20: a broadcast that has read its listing to the end has attempted exactly
\* one send to every private user register_chat was called for before it
\* started, the users recorded only in the fallback set included.
C20_AllRegisteredTargeted ==
    (Ended /\ last.ev.handler = "broadcast" /\ last.out # <<>> /\ last.out[1] = "summary") =>
        \A u \in C20_Registered :
            Cardinality({k \in 1..Len(last.attempts) : last.attempts[k].uid = u}) = 1

====
